---- MODULE Spec2Model ----
(***************************************************************************)
(* A model of sentry's event storage service (sentry/eventstore/base.py)   *)
(* and of the incident tasks (sentry/incidents/tasks.py).                  *)
(*                                                                         *)
(*   Spec       concurrent invocations of EventStorage.bind_nodes on a     *)
(*              shared pool of Event objects and an unchanged nodestore,   *)
(*              together with the column catalog of the class body.        *)
(*   SpecQuery  the read operations of the EventStorage interface          *)
(*              (get_event_by_id, get_events, get_next_event_id,           *)
(*              get_prev_event_id) over a backend that is not written to,  *)
(*              called one at a time by a caller that takes each answer.   *)
(*   SpecNotify runs of the task send_subscriber_notifications on the      *)
(*              activities and subscribers of one incident.                *)
(*   SpecSuspects  concurrent runs of the task calculate_incident_suspects *)
(*              under the lock incident:suspects:<incident_id>.            *)
(*   SpecDelete the chain of runs of the task delete_alert_rule on one     *)
(*              alert rule: the first call, its reschedules and retries.   *)
(***************************************************************************)
EXTENDS Integers, Sequences, FiniteSets, TLC

(***************************************************************************)
(* Bounds.                                                                 *)
(***************************************************************************)
\* longest object_list handed to one bind_nodes invocation
MaxLen == 2

(***************************************************************************)
(* Values.                                                                 *)
(***************************************************************************)
\* Python's None
None == "None"
\* the Event objects that callers hold and hand to bind_nodes
Events == {"e1", "e2"}
\* the node ids an Event's NodeData may carry
NodeIds == {"n1", "n2"}
\* the request-handling contexts that call into the service
Procs == {"p1", "p2"}
\* a NodeData whose body was never fetched nor bound
Unfetched == "unfetched"
\* a body bound to a NodeData before the invocations of this model
Inline == "inline"
\* the empty dict {} that bind_nodes falls back to
EmptyBody == "{}"
\* the exception a failed dict lookup raises
KeyError == "KeyError"
\* what nodestore may hold under a node id: nothing, an empty blob, a blob
Absent == "absent"
Blobs == {"blobA", "blobB"}
StoreValues == {Absent, EmptyBody} \cup Blobs

(***************************************************************************)
(* The column catalog: class Columns and the two class attributes.         *)
(***************************************************************************)
\* class Columns(Enum): member name |-> backend column name
Columns ==
    [ event_id   |-> "event_id",
      group_id   |-> "group_id",
      project_id |-> "project_id",
      timestamp  |-> "timestamp",
      culprit    |-> "culprit",
      location   |-> "location",
      message    |-> "message",
      platform   |-> "platform",
      title      |-> "title",
      type       |-> "type",
      tags_key   |-> "tags.key",
      tags_value |-> "tags.value",
      email      |-> "email",
      ip_address |-> "ip_address",
      user_id    |-> "user_id",
      username   |-> "username" ]

\* EventStorage.minimal_columns as the class body builds it
MinimalColumns == << "event_id", "group_id", "project_id", "timestamp" >>

\* (a full list written out on its own, group_id forgotten)
FullColumnsWrittenOut ==
    << "event_id", "project_id", "timestamp",
       "culprit", "location", "message", "platform", "title", "type",
       "tags_key", "tags_value",
       "email", "ip_address", "user_id", "username" >>

\* EventStorage.full_columns: minimal_columns + [...]
FullColumns ==
    MinimalColumns \o
    << "culprit", "location", "message", "platform", "title", "type",
       "tags_key", "tags_value",
       "email", "ip_address", "user_id", "username" >>

VARIABLES
    minimal_columns,   \* EventStorage.minimal_columns
    full_columns,      \* EventStorage.full_columns
    store,             \* nodestore: node id -> blob, or Absent
    events,            \* the Event objects: event -> its attributes and NodeData
    events0,           \* history: the Event objects as they were before any call
    pc,                \* per context: where its bind_nodes invocation stands
    object_list,       \* per context: the argument of its invocation
    frame,             \* per frame: the locals of bind_nodes
    iter,              \* per context: the position of its for loop
    calls,             \* history, per context: nodestore.get_multi calls made
    requests,          \* history, per context: the key lists passed to get_multi
    interleaved,       \* history: a step was taken inside another's invocation
    q_rows,            \* the query backend: the stored events
    q_last,            \* the last call of a read operation and what it gave
    n_activities,      \* IncidentActivity rows: id -> type and user
    n_projects,        \* the projects of the incident
    n_access,          \* user -> the projects the user has access to
    n_subscribers,     \* the users subscribed to the incident
    n_sent,            \* the users an activity email was sent to, ever
    n_last,            \* the last run of send_subscriber_notifications
    s_table,           \* IncidentSuspectCommit rows, committed: incident -> rows
    s_table0,          \* history: the rows before any run of this model
    s_lock,            \* the locks incident:suspects:<id>: incident -> holder
    s_pc,              \* per run of calculate_incident_suspects: where it is
    s_incident,        \* per run: its incident_id
    s_suspects,        \* per run: the suspect_commits it computed
    s_txn,             \* per run: what its open transaction deleted and created
    d_status,          \* AlertRule rows: alert rule id -> status, or no row
    d_left,            \* alert rule id -> the chunks its deletion still takes
    d_queue,           \* the delete_alert_rule messages waiting to run
    d_uuids,           \* how many uuid4() values were drawn
    d_runs             \* history: the runs of delete_alert_rule, in order

bindVars ==
    << store, events, events0, pc, object_list, frame, iter, calls, requests,
       interleaved >>
catalogVars == << minimal_columns, full_columns >>
queryVars == << q_rows, q_last >>
notifyVars ==
    << n_activities, n_projects, n_access, n_subscribers, n_sent, n_last >>
suspectVars ==
    << s_table, s_table0, s_lock, s_pc, s_incident, s_suspects, s_txn >>
deleteVars == << d_status, d_left, d_queue, d_uuids, d_runs >>
vars ==
    << catalogVars, bindVars, queryVars, notifyVars, suspectVars, deleteVars >>
\* what bind_nodes leaves alone, what the read operations leave alone, what
\* the incident tasks leave alone
outsideBind == << catalogVars, queryVars, notifyVars, suspectVars, deleteVars >>
outsideQuery == << catalogVars, bindVars, notifyVars, suspectVars, deleteVars >>
outsideNotify == << catalogVars, bindVars, queryVars, suspectVars, deleteVars >>
outsideSuspects ==
    << catalogVars, bindVars, queryVars, notifyVars, deleteVars >>
outsideDelete ==
    << catalogVars, bindVars, queryVars, notifyVars, suspectVars >>

(***************************************************************************)
(* bind_nodes, piece by piece.                                             *)
(***************************************************************************)
\* the input lists: every list of Event objects of length 0..MaxLen, an
\* object may occur twice
ObjectLists == UNION { [1..n -> Events] : n \in 0..MaxLen }

\* (a filter that keeps every object)
AlwaysTruthy(id) == TRUE

\* Python truthiness of a node id (`if getattr(i, node_name).id`)
Truthy(id) == id # None

\* (locals kept on the service object, one slot for every invocation)
SharedFrame(p) == "p1"

\* the locals of a bind_nodes invocation live in the invocation's own frame
Frame(p) == p

\* object_node_list = [(i, getattr(i, node_name)) for i in object_list
\*                     if getattr(i, node_name).id]
\* The node of the pair is reached through the item, so the list holds items.
ObjectNodeList(evs, l) == SelectSeq(l, LAMBDA i : Truthy(evs[i].node.id))

\* node_ids = [n.id for _, n in object_node_list]
NodeIdsOf(evs, onl) == [k \in 1..Len(onl) |-> evs[onl[k]].node.id]

\* (no early return)
NoEarlyReturn(node_ids) == FALSE

\* if not node_ids: return
EarlyReturn(node_ids) == node_ids = << >>

\* nodestore.get_multi(id_list): a mapping that has no entry for an id the
\* store does not hold
get_multi(st, id_list) ==
    LET asked == { id_list[k] : k \in 1..Len(id_list) }
    IN  [id \in { i \in asked \cap DOMAIN st : st[i] # Absent } |-> st[id]]

\* (d[key]: KeyError for a missing key)
DictIndex(d, key) == IF key \in DOMAIN d THEN d[key] ELSE KeyError

\* dict.get(key): None for a missing key, no KeyError
DictGet(d, key) == IF key \in DOMAIN d THEN d[key] ELSE None

\* data = node_results.get(node.id) or {}; an exception of the lookup
\* propagates
DataFor(node_results, id) ==
    LET got == DictGet(node_results, id)
    IN  IF got = None \/ got = EmptyBody THEN EmptyBody ELSE got

\* node.bind_data(data, ref=node.get_ref(item)): the body of the NodeData
\* becomes data
bind_data(ev, data) == [ev EXCEPT !.node.data = data]

NoResults == [id \in {} |-> Absent]
NoFrame == [object_node_list |-> << >>, node_ids |-> << >>,
            node_results |-> NoResults]

\* the Event objects a caller may hold: an event without a node id has no
\* body in nodestore (its body is unfetched or was bound inline), an event
\* with a node id has not been fetched yet
EventObjects ==
    { [project_id |-> "proj", event_id |-> "ev",
       node |-> [id |-> None, data |-> d]] : d \in {Unfetched, Inline} }
    \cup
    { [project_id |-> "proj", event_id |-> "ev",
       node |-> [id |-> n, data |-> Unfetched]] : n \in NodeIds }

InitCatalog ==
    /\ minimal_columns = MinimalColumns
    /\ full_columns = FullColumns

InitBind ==
    /\ store \in [NodeIds -> StoreValues]
    /\ events \in [Events -> EventObjects]
    /\ events0 = events
    /\ pc = [p \in Procs |-> "idle"]
    /\ object_list = [p \in Procs |-> << >>]
    /\ frame = [p \in Procs |-> NoFrame]
    /\ iter = [p \in Procs |-> 1]
    /\ calls = [p \in Procs |-> 0]
    /\ requests = [p \in Procs |-> << >>]
    /\ interleaved = FALSE

\* no incident, no activity, no task run
IdleNotify ==
    /\ n_activities = [a \in {} |-> None]
    /\ n_projects = {}
    /\ n_access = [u \in {} |-> {}]
    /\ n_subscribers = {}
    /\ n_sent = {}
    /\ n_last = [op |-> "none"]

\* the runs of calculate_incident_suspects and the incidents they are for
Runs == {"r1", "r2"}
Incidents == {"i1", "i2"}

\* no run of calculate_incident_suspects, no suspect commit stored
IdleSuspects ==
    /\ s_table = [i \in Incidents |-> {}]
    /\ s_table0 = s_table
    /\ s_lock = [i \in Incidents |-> None]
    /\ s_pc = [r \in Runs |-> "idle"]
    /\ s_incident = [r \in Runs |-> None]
    /\ s_suspects = [r \in Runs |-> << >>]
    /\ s_txn = [r \in Runs |-> [deleted |-> {}, created |-> {}]]

\* the alert rule ids delete_alert_rule is called with
AlertRuleIds == {"rule1"}

\* no alert rule, no delete_alert_rule message
IdleDelete ==
    /\ d_status = [a \in AlertRuleIds |-> "DoesNotExist"]
    /\ d_left = [a \in AlertRuleIds |-> 0]
    /\ d_queue = {}
    /\ d_uuids = 0
    /\ d_runs = << >>

\* no read operation was called, the backend holds no event
IdleQuery ==
    /\ q_rows = {}
    /\ q_last = [op |-> "none"]

Init == InitCatalog /\ InitBind /\ IdleQuery /\ IdleNotify /\ IdleSuspects
    /\ IdleDelete

\* another context is between its call and its return
InFlight(p) == \E q \in Procs \ {p} : pc[q] \in {"fetch", "bind"}

\* bind_nodes is entered: lines 132-137
Call(p, l) ==
    /\ pc[p] = "idle"
    /\ LET onl == ObjectNodeList(events, l)
           ids == NodeIdsOf(events, onl)
       IN  /\ frame' = [frame EXCEPT ![Frame(p)] =
                           [object_node_list |-> onl, node_ids |-> ids,
                            node_results |-> NoResults]]
           /\ pc' = [pc EXCEPT ![p] =
                        IF EarlyReturn(ids) THEN "returned" ELSE "fetch"]
    /\ object_list' = [object_list EXCEPT ![p] = l]
    /\ UNCHANGED << store, events, events0, iter, calls, requests, interleaved,
                    outsideBind >>

\* node_results = nodestore.get_multi(node_ids): line 139
Fetch(p) ==
    /\ pc[p] = "fetch"
    /\ LET ids == frame[Frame(p)].node_ids
       IN  /\ frame' = [frame EXCEPT ![Frame(p)].node_results =
                           get_multi(store, ids)]
           /\ requests' = [requests EXCEPT ![p] = Append(@, ids)]
    /\ calls' = [calls EXCEPT ![p] = @ + 1]
    /\ pc' = [pc EXCEPT ![p] = "bind"]
    /\ interleaved' = (interleaved \/ InFlight(p))
    /\ UNCHANGED << store, events, events0, object_list, iter, outsideBind >>

\* one turn of `for item, node in object_node_list`: lines 141-143; the
\* loop ends after the turn that binds the last pair
Bind(p) ==
    /\ pc[p] = "bind"
    /\ LET f == frame[Frame(p)]
           k == iter[p]
       IN  IF k > Len(f.object_node_list)
           THEN /\ pc' = [pc EXCEPT ![p] = "returned"]
                /\ UNCHANGED << events, iter >>
           ELSE LET item == f.object_node_list[k]
                    data == DataFor(f.node_results, events[item].node.id)
                IN  IF data = KeyError
                    THEN /\ pc' = [pc EXCEPT ![p] = "raised"]
                         /\ UNCHANGED << events, iter >>
                    ELSE /\ events' = [events EXCEPT
                                           ![item] = bind_data(@, data)]
                         /\ iter' = [iter EXCEPT ![p] = k + 1]
                         /\ pc' = [pc EXCEPT ![p] =
                                      IF k + 1 > Len(f.object_node_list)
                                      THEN "returned" ELSE "bind"]
    /\ interleaved' = (interleaved \/ InFlight(p))
    /\ UNCHANGED << store, events0, object_list, frame, calls, requests,
                    outsideBind >>

Next ==
    \/ \E p \in Procs, l \in ObjectLists : Call(p, l)
    \/ \E p \in Procs : Fetch(p)
    \/ \E p \in Procs : Bind(p)

Spec == Init /\ [][Next]_vars

(***************************************************************************)
(* bind_nodes as one function of its arguments: the Event objects after a  *)
(* call that runs from entry to return with nothing in between.            *)
(***************************************************************************)
RECURSIVE BindFrom(_, _, _, _)
BindFrom(evs, onl, node_results, k) ==
    IF k > Len(onl)
    THEN evs
    ELSE BindFrom([evs EXCEPT ![onl[k]] =
                      bind_data(@, DataFor(node_results, evs[onl[k]].node.id))],
                  onl, node_results, k + 1)

bind_nodes(evs, st, l) ==
    LET onl == ObjectNodeList(evs, l)
        ids == NodeIdsOf(evs, onl)
    IN  IF EarlyReturn(ids)
        THEN evs
        ELSE BindFrom(evs, onl, get_multi(st, ids), 1)

(***************************************************************************)
(* Claims about bind_nodes.                                                *)
(***************************************************************************)
\* the object_list of p holds an event that has a node id
HasNodeId(p) ==
    \E k \in 1..Len(object_list[p]) : events[object_list[p][k]].node.id # None

\* the events of the object_list of p
Listed(p) == { object_list[p][k] : k \in 1..Len(object_list[p]) }

\* what nodestore answers for a node id, an empty body when it has no entry
StoredBody(id) == IF store[id] = Absent THEN EmptyBody ELSE store[id]

\* C1 as stated: every invocation of bind_nodes that has returned made
\* exactly one multi-get call, whatever its input list was.
C1_ExactlyOneCallAlways ==
    \A p \in Procs : pc[p] = "returned" => calls[p] = 1

\* C1 amended: an invocation never makes more than one multi-get call; one
\* that has returned made exactly one when some event of its input has a
\* node id, and none when the input is empty or no event has a node id.
C1_OneCallIffSomeNodeId ==
    \A p \in Procs :
        /\ calls[p] <= 1
        /\ pc[p] = "returned" => (calls[p] = 1 <=> HasNodeId(p))

\* both cases of C1 in one state: a returned call that fetched, and a
\* returned call on a non-empty list without node ids that did not
C1_Witness ==
    \E p, q \in Procs :
        /\ pc[p] = "returned" /\ calls[p] = 1 /\ HasNodeId(p)
        /\ pc[q] = "returned" /\ calls[q] = 0 /\ object_list[q] # << >>

\* C2: after bind_nodes returns, every input event that has a node id holds
\* the blob nodestore has for that id, and an empty body when nodestore has
\* none; no invocation raises.
C2_BodiesBound ==
    \A p \in Procs :
        /\ pc[p] # "raised"
        /\ pc[p] = "returned" =>
              \A e \in Listed(p) :
                  events[e].node.id # None =>
                      events[e].node.data = StoredBody(events[e].node.id)

\* a returned call that bound a stored blob to one event and the empty body
\* to another whose blob is missing
C2_Witness ==
    \E p \in Procs :
        /\ pc[p] = "returned"
        /\ \E e1, e2 \in Listed(p) :
              /\ events[e1].node.id # None /\ events[e2].node.id # None
              /\ store[events[e1].node.id] \in Blobs
              /\ events[e1].node.data = store[events[e1].node.id]
              /\ store[events[e2].node.id] = Absent
              /\ events[e2].node.data = EmptyBody

\* C3 as stated: no key list passed to get_multi holds a node id twice.
C3_NoNodeIdTwice ==
    \A p \in Procs : \A r \in 1..Len(requests[p]) :
        \A i, j \in 1..Len(requests[p][r]) :
            i # j => requests[p][r][i] # requests[p][r][j]

\* C4: an event without a node id is never part of a multi-get request, its
\* body stays what it was, no call raises, and no attribute of any event
\* other than the body of its node changes.
C4_NoNodeIdSkipped ==
    /\ \A p \in Procs : pc[p] # "raised"
    /\ \A p \in Procs : \A r \in 1..Len(requests[p]) :
          \A i \in 1..Len(requests[p][r]) :
              /\ requests[p][r][i] # None
              /\ \E e \in Listed(p) : events[e].node.id = requests[p][r][i]
    /\ \A e \in Events :
          /\ events[e].node.id = None =>
                events[e].node.data = events0[e].node.data
          /\ [events[e] EXCEPT !.node.data = Unfetched]
                = [events0[e] EXCEPT !.node.data = Unfetched]

\* a returned call whose list held an event without node id, body bound
\* inline, next to an event that was hydrated
C4_Witness ==
    \E p \in Procs :
        /\ pc[p] = "returned" /\ calls[p] = 1
        /\ \E e1, e2 \in Listed(p) :
              /\ events[e1].node.id = None /\ events[e1].node.data = Inline
              /\ events[e2].node.id # None /\ events[e2].node.data # Unfetched

\* the Event objects after the invocations ran one after another in `order`
RECURSIVE RunInOrder(_, _, _)
RunInOrder(evs, order, k) ==
    IF k > Len(order)
    THEN evs
    ELSE RunInOrder(bind_nodes(evs, store, object_list[order[k]]), order, k + 1)

\* the orders in which the contexts can run one after another
Orders == { o \in [1..Cardinality(Procs) -> Procs] :
               \A i, j \in 1..Cardinality(Procs) : i # j => o[i] # o[j] }

AllReturned == \A p \in Procs : pc[p] = "returned"

\* C5: whatever the interleaving, when all invocations have returned every
\* event holds the body it holds when the invocations run one after another
\* (in any order); and what an invocation works on is its own: its pairs are
\* those of its own argument and its results are the answer to its own keys.
C5_Stateless ==
    /\ AllReturned => \A o \in Orders : events = RunInOrder(events0, o, 1)
    /\ \A p \in Procs :
          /\ pc[p] # "idle" =>
                /\ frame[p].object_node_list
                      = ObjectNodeList(events, object_list[p])
                /\ frame[p].node_ids = NodeIdsOf(events, frame[p].object_node_list)
          /\ pc[p] = "bind" =>
                frame[p].node_results = get_multi(store, frame[p].node_ids)

\* two invocations on overlapping lists whose steps interleaved, both returned
C5_Witness ==
    /\ AllReturned
    /\ interleaved
    /\ \E p, q \in Procs :
          /\ p # q
          /\ calls[p] = 1 /\ calls[q] = 1
          /\ \E e \in Listed(p) \cap Listed(q) :
                events[e].node.id # None /\ store[events[e].node.id] \in Blobs

(***************************************************************************)
(* Claims about the column catalog.                                        *)
(***************************************************************************)
Range(seq) == { seq[k] : k \in 1..Len(seq) }

\* C6: in every state minimal_columns is a subset of full_columns, it is
\* exactly event id, group id, project id and timestamp, every element of
\* both is a member of Columns, and no two members of Columns map to the
\* same backend column name.
C6_Catalog ==
    /\ Range(minimal_columns) \subseteq Range(full_columns)
    /\ Range(minimal_columns)
          = {"event_id", "group_id", "project_id", "timestamp"}
    /\ Len(minimal_columns) = Cardinality(Range(minimal_columns))
    /\ Range(full_columns) \subseteq DOMAIN Columns
    /\ \A a, b \in DOMAIN Columns : a # b => Columns[a] # Columns[b]

\* the catalog as the class body built it, after bind_nodes calls have run
C6_Witness ==
    /\ AllReturned
    /\ \E p \in Procs : calls[p] = 1
    /\ Len(minimal_columns) < Len(full_columns)
    /\ Range(full_columns) = DOMAIN Columns

(***************************************************************************)
(* The read operations of the interface.  base.py declares them (each      *)
(* raises NotImplementedError there) and documents their arguments and     *)
(* defaults; what a backend answers is taken from the service contract:    *)
(* events are keyed by (project_id, event_id), the default order is by     *)
(* time descending, then by event id descending, and it is one fixed order *)
(* of the matching events (rows equal in both are kept in the order of     *)
(* their project ids).  An event id is modelled by its rank in the order   *)
(* of event ids.                                                           *)
(***************************************************************************)
\* the latest timestamp of a stored event
MaxTime == 2
\* the most events the backend holds
MaxRows == 3
\* the largest limit and the largest offset of a get_events call
MaxLimit == 2

ProjectIds == {1, 2}
EventIds == {1, 2}
GroupIds == {None, "g1"}
Times == 1..MaxTime
\* start defaults to the epoch, end to now
Epoch == 0
Now == MaxTime + 1
Keys == ProjectIds \X EventIds

\* orderby, default ['-time', '-event_id']
DefaultOrder == << "-time", "-event_id" >>
Ascending == << "time", "event_id" >>

\* the conditions and filter keys of the calls of this model
ConditionLists == { << >>, << << "group_id", "=", "g1" >> >> }
FilterKeys == { [project_id |-> ps] : ps \in (SUBSET ProjectIds) \ {{}} }

KeyOf(row) == << row.project_id, row.event_id >>

Found(id) == [found |-> TRUE, id |-> id]
NotFoundId == [found |-> FALSE]
Returned(event) == [raised |-> "no", event |-> event]
Raised(error) == [raised |-> error]

\* a row satisfies one condition
Satisfies(row, cond) ==
    cond[1] = "group_id" /\ cond[2] = "=" /\ row.group_id = cond[3]

\* the rows a query sees: all conditions hold, the project is in scope
Matching(rows, conditions, filter_keys) ==
    { r \in rows :
        /\ r.project_id \in filter_keys.project_id
        /\ \A k \in 1..Len(conditions) : Satisfies(r, conditions[k]) }

\* a comes before b in the default order
Before(a, b) ==
    \/ a.timestamp > b.timestamp
    \/ a.timestamp = b.timestamp /\ a.event_id > b.event_id
    \/ /\ a.timestamp = b.timestamp /\ a.event_id = b.event_id
       /\ a.project_id > b.project_id

\* the rows of S in the default order
RECURSIVE InDefaultOrder(_)
InDefaultOrder(S) ==
    IF S = {}
    THEN << >>
    ELSE LET first == CHOOSE r \in S :
                          \A o \in S \ {r} :
                              \/ o.timestamp < r.timestamp
                              \/ /\ o.timestamp = r.timestamp
                                 /\ o.event_id < r.event_id
                              \/ /\ o.timestamp = r.timestamp
                                 /\ o.event_id = r.event_id
                                 /\ o.project_id < r.project_id
         IN  << first >> \o InDefaultOrder(S \ {first})

Reverse(seq) == [k \in 1..Len(seq) |-> seq[Len(seq) + 1 - k]]

Min(a, b) == IF a < b THEN a ELSE b

\* (a slice that takes one row too many)
SliceInclusive(seq, limit, offset) ==
    SubSeq(seq, offset + 1, Min(offset + limit + 1, Len(seq)))

\* LIMIT limit OFFSET offset
Slice(seq, limit, offset) ==
    SubSeq(seq, offset + 1, Min(offset + limit, Len(seq)))

\* (a missing event answered by an empty Event)
EmptyEventIfMissing(rows, project_id, event_id) ==
    IF \E r \in rows : KeyOf(r) = << project_id, event_id >>
    THEN Returned(CHOOSE r \in rows : KeyOf(r) = << project_id, event_id >>)
    ELSE Returned([project_id |-> project_id, event_id |-> event_id,
                   timestamp |-> Epoch, group_id |-> None])

\* get_event_by_id(project_id, event_id, cols)
get_event_by_id(rows, project_id, event_id) ==
    IF \E r \in rows : KeyOf(r) = << project_id, event_id >>
    THEN Returned(CHOOSE r \in rows : KeyOf(r) = << project_id, event_id >>)
    ELSE Raised("NotFound")

\* get_events(start, end, cols, conditions, filter_keys, orderby, limit,
\* offset)
get_events(rows, start, end, conditions, filter_keys, orderby, limit, offset) ==
    LET seen == { r \in Matching(rows, conditions, filter_keys) :
                     start <= r.timestamp /\ r.timestamp < end }
        ordered == IF orderby = DefaultOrder
                   THEN InDefaultOrder(seen)
                   ELSE Reverse(InDefaultOrder(seen))
    IN  Slice(ordered, limit, offset)

\* (the next event looked for among the strictly later timestamps only)
NextByTimeOnly(rows, event, conditions, filter_keys) ==
    LET later == { r \in Matching(rows, conditions, filter_keys) :
                     r.timestamp > event.timestamp }
    IN  IF later = {}
        THEN NotFoundId
        ELSE Found(KeyOf(InDefaultOrder(later)[Cardinality(later)]))

\* get_next_event_id(event, conditions, filter_keys): the matching event
\* right after `event` in time, the one right before it in the default order
get_next_event_id(rows, event, conditions, filter_keys) ==
    LET later == { r \in Matching(rows, conditions, filter_keys) :
                     Before(r, event) }
    IN  IF later = {}
        THEN NotFoundId
        ELSE Found(KeyOf(CHOOSE r \in later :
                            \A o \in later \ {r} : Before(o, r)))

\* get_prev_event_id(event, conditions, filter_keys): the matching event
\* right before `event` in time, the one right after it in the default order
get_prev_event_id(rows, event, conditions, filter_keys) ==
    LET earlier == { r \in Matching(rows, conditions, filter_keys) :
                       Before(event, r) }
    IN  IF earlier = {}
        THEN NotFoundId
        ELSE Found(KeyOf(CHOOSE r \in earlier :
                            \A o \in earlier \ {r} : Before(r, o)))

\* nothing of bind_nodes is in progress
IdleBind ==
    /\ store = [n \in NodeIds |-> Absent]
    /\ events = [e \in Events |->
                    [project_id |-> "proj", event_id |-> "ev",
                     node |-> [id |-> None, data |-> Unfetched]]]
    /\ events0 = events
    /\ pc = [p \in Procs |-> "idle"]
    /\ object_list = [p \in Procs |-> << >>]
    /\ frame = [p \in Procs |-> NoFrame]
    /\ iter = [p \in Procs |-> 1]
    /\ calls = [p \in Procs |-> 0]
    /\ requests = [p \in Procs |-> << >>]
    /\ interleaved = FALSE

\* the backend holds at most MaxRows events, no two with the same key
InitQuery ==
    /\ \E K \in SUBSET Keys :
          /\ Cardinality(K) <= MaxRows
          /\ \E f \in [K -> Times \X GroupIds] :
                q_rows = { [project_id |-> k[1], event_id |-> k[2],
                            timestamp |-> f[k][1], group_id |-> f[k][2]] :
                           k \in K }
    /\ q_last = [op |-> "none"]

InitQ == InitCatalog /\ IdleBind /\ InitQuery /\ IdleNotify /\ IdleSuspects
    /\ IdleDelete

GetEventById(project_id, event_id) ==
    /\ q_last.op = "none"
    /\ q_last' = [op |-> "get_event_by_id",
                  project_id |-> project_id, event_id |-> event_id,
                  result |-> get_event_by_id(q_rows, project_id, event_id)]
    /\ UNCHANGED << q_rows, outsideQuery >>

GetEvents(end, conditions, filter_keys, orderby, limit, offset) ==
    /\ q_last.op = "none"
    /\ q_last' = [op |-> "get_events", start |-> Epoch, end |-> end,
                  conditions |-> conditions, filter_keys |-> filter_keys,
                  orderby |-> orderby, limit |-> limit, offset |-> offset,
                  result |-> get_events(q_rows, Epoch, end, conditions,
                                        filter_keys, orderby, limit, offset)]
    /\ UNCHANGED << q_rows, outsideQuery >>

GetNextEventId(event, conditions, filter_keys) ==
    /\ q_last.op = "none"
    /\ q_last' = [op |-> "get_next_event_id", event |-> event,
                  conditions |-> conditions, filter_keys |-> filter_keys,
                  result |-> get_next_event_id(q_rows, event, conditions,
                                               filter_keys)]
    /\ UNCHANGED << q_rows, outsideQuery >>

GetPrevEventId(event, conditions, filter_keys) ==
    /\ q_last.op = "none"
    /\ q_last' = [op |-> "get_prev_event_id", event |-> event,
                  conditions |-> conditions, filter_keys |-> filter_keys,
                  result |-> get_prev_event_id(q_rows, event, conditions,
                                               filter_keys)]
    /\ UNCHANGED << q_rows, outsideQuery >>

\* the caller has taken the answer; the service keeps nothing of the call
Answered ==
    /\ q_last.op # "none"
    /\ q_last' = [op |-> "none"]
    /\ UNCHANGED << q_rows, outsideQuery >>

NextQ ==
    \/ \E project_id \in ProjectIds, event_id \in EventIds :
          GetEventById(project_id, event_id)
    \/ \E end \in {MaxTime, Now}, conditions \in ConditionLists,
          filter_keys \in FilterKeys, orderby \in {DefaultOrder, Ascending},
          limit \in 0..MaxLimit, offset \in 0..MaxLimit :
          GetEvents(end, conditions, filter_keys, orderby, limit, offset)
    \/ \E event \in q_rows, conditions \in ConditionLists,
          filter_keys \in FilterKeys :
          GetNextEventId(event, conditions, filter_keys)
    \/ \E event \in q_rows, conditions \in ConditionLists,
          filter_keys \in FilterKeys :
          GetPrevEventId(event, conditions, filter_keys)
    \/ Answered

SpecQuery == InitQ /\ [][NextQ]_vars

Users == {"u1", "u2", "u3"}
Projects == {"projA", "projB"}
\* the activity ids a run may be given: "a1" is a row, "a2" is none
ActivityIds == {"a1", "a2"}
\* IncidentActivityType: the two the task names, and one of the others
COMMENT == "COMMENT"
STATUS_CHANGE == "STATUS_CHANGE"
ActivityTypes == {COMMENT, STATUS_CHANGE, "CREATED"}

\* (no check of the activity type)
AnyType(type) == TRUE

\* activity.type in (COMMENT.value, STATUS_CHANGE.value)
Notifiable(type) == type \in {COMMENT, STATUS_CHANGE}

\* any(project for project in projects if access.has_project_access(project))
HasAnyProjectAccess(access, projects, user) ==
    \E project \in projects : project \in access[user]

\* one turn of the loop over the subscribers
Handle(acc, access, projects, activity, user) ==
    IF ~ HasAnyProjectAccess(access, projects, user)
    THEN \* unsubscribe_from_incident(activity.incident, user)
         [acc EXCEPT !.subscribers = @ \ {user},
                     !.unsubscribed = @ \cup {user}]
    ELSE IF user # activity.user
         THEN \* msg.send_async([user.email])
              [acc EXCEPT !.emailed = @ \cup {user}]
         ELSE acc

\* for subscriber in get_incident_subscribers(activity.incident)
RECURSIVE NotifyLoop(_, _, _, _, _)
NotifyLoop(todo, acc, access, projects, activity) ==
    IF todo = {}
    THEN acc
    ELSE LET user == CHOOSE u \in todo : TRUE
         IN  NotifyLoop(todo \ {user},
                        Handle(acc, access, projects, activity, user),
                        access, projects, activity)

\* what a run on activity_id does to the subscribers, whom it mails and
\* whom it unsubscribes
send_subscriber_notifications(activities, subscribers, access, projects, activity_id) ==
    LET nothing == [subscribers |-> subscribers, emailed |-> {},
                    unsubscribed |-> {}]
    IN  IF activity_id \notin DOMAIN activities
        THEN nothing
        ELSE IF ~ Notifiable(activities[activity_id].type)
             THEN nothing
             ELSE NotifyLoop(subscribers, nothing, access, projects,
                             activities[activity_id])

InitNotify ==
    /\ n_activities \in [{"a1"} -> [type : ActivityTypes,
                                    user : Users \cup {None}]]
    /\ n_projects \in SUBSET Projects
    /\ n_access \in [Users -> SUBSET Projects]
    /\ n_subscribers \in SUBSET Users
    /\ n_sent = {}
    /\ n_last = [op |-> "none"]

InitN == InitCatalog /\ IdleBind /\ IdleQuery /\ InitNotify /\ IdleSuspects
    /\ IdleDelete

SendSubscriberNotifications(activity_id) ==
    LET out == send_subscriber_notifications(n_activities, n_subscribers,
                                             n_access, n_projects, activity_id)
    IN  /\ n_subscribers' = out.subscribers
        /\ n_sent' = n_sent \cup out.emailed
        /\ n_last' = [op |-> "send_subscriber_notifications",
                      activity_id |-> activity_id,
                      subscribers |-> n_subscribers,
                      emailed |-> out.emailed,
                      unsubscribed |-> out.unsubscribed]
        /\ UNCHANGED << n_activities, n_projects, n_access, outsideNotify >>

NextN == \E activity_id \in ActivityIds : SendSubscriberNotifications(activity_id)

SpecNotify == InitN /\ [][NextN]_vars

(***************************************************************************)
(* Claims about the incident tasks.                                        *)
(***************************************************************************)
\* C10: a run mails a subscriber only when the activity exists, its type is
\* COMMENT or STATUS_CHANGE, the subscriber has access to a project of the
\* incident and is not the user of the activity; on such an activity every
\* subscriber with access to none of the projects is unsubscribed and is
\* not mailed; on an activity of another type nobody is mailed and nobody
\* is unsubscribed.
C10_Notifications ==
    n_last.op = "send_subscriber_notifications" =>
        LET exists == n_last.activity_id \in DOMAIN n_activities
            activity == n_activities[n_last.activity_id]
            access(u) == n_access[u] \cap n_projects # {}
        IN  /\ \A u \in n_last.emailed :
                  /\ exists
                  /\ activity.type \in {COMMENT, STATUS_CHANGE}
                  /\ u \in n_last.subscribers
                  /\ access(u)
                  /\ u # activity.user
            /\ (exists /\ activity.type \in {COMMENT, STATUS_CHANGE}) =>
                  \A u \in n_last.subscribers :
                      ~ access(u) =>
                          /\ u \in n_last.unsubscribed
                          /\ u \notin n_subscribers
                          /\ u \notin n_last.emailed
            /\ (exists /\ activity.type \notin {COMMENT, STATUS_CHANGE}) =>
                  /\ n_last.emailed = {}
                  /\ n_last.unsubscribed = {}
                  /\ n_subscribers = n_last.subscribers

\* a run that mailed one subscriber, unsubscribed another and passed over
\* the author of the activity
C10_Witness ==
    /\ n_last.op = "send_subscriber_notifications"
    /\ n_last.activity_id \in DOMAIN n_activities
    /\ n_last.emailed # {}
    /\ n_last.unsubscribed # {}
    /\ \E u \in n_last.subscribers :
          /\ u = n_activities[n_last.activity_id].user
          /\ u \notin n_last.emailed
          /\ u \in n_subscribers

(***************************************************************************)
(* sentry/incidents/tasks.py: calculate_incident_suspects.  A run takes    *)
(* the lock of its incident, computes the suspect commits and replaces the *)
(* stored rows inside one transaction.  The lock is held from lock.acquire *)
(* to the end of the with block; a transaction shows its writes to others  *)
(* when it commits, and its delete removes the rows it saw.                *)
(***************************************************************************)
Commits == {"c1", "c2"}

\* what get_incident_suspect_commits may return: commit ids, none twice
CommitLists ==
    { l \in UNION { [1..n -> Commits] : n \in 0..Cardinality(Commits) } :
         \A i, j \in 1..Len(l) : i # j => l[i] # l[j] }

\* [IncidentSuspectCommit(incident=incident, commit_id=commit_id, order=i)
\*  for i, commit_id in enumerate(suspect_commits)]
SuspectRows(suspect_commits) ==
    { [commit_id |-> suspect_commits[k], order |-> k - 1] :
         k \in 1..Len(suspect_commits) }

\* (an acquire that does not look at the holder)
AlwaysFree(lock, key) == TRUE

\* lock.acquire succeeds when nobody holds the lock of the key
LockFree(lock, key) == lock[key] = None

\* a run is inside the with block of the lock
InsideLock(r) == s_pc[r] \in {"load", "delete", "create", "commit", "release"}

\* a run is inside transaction.atomic()
InsideAtomic(r) == s_pc[r] \in {"delete", "create", "commit"}

InitSuspects ==
    /\ s_table \in [Incidents -> { SuspectRows(l) : l \in CommitLists }]
    /\ s_table0 = s_table
    /\ s_lock = [i \in Incidents |-> None]
    /\ s_pc = [r \in Runs |-> "idle"]
    /\ s_incident = [r \in Runs |-> None]
    /\ s_suspects = [r \in Runs |-> << >>]
    /\ s_txn = [r \in Runs |-> [deleted |-> {}, created |-> {}]]

InitS ==
    /\ InitCatalog /\ IdleBind /\ IdleQuery /\ IdleNotify /\ InitSuspects
    /\ IdleDelete

\* the task is started: lock = locks.get(u"incident:suspects:{}"...)
StartRun(r, incident_id) ==
    /\ s_pc[r] = "idle"
    /\ s_pc' = [s_pc EXCEPT ![r] = "acquire"]
    /\ s_incident' = [s_incident EXCEPT ![r] = incident_id]
    /\ UNCHANGED << s_table, s_table0, s_lock, s_suspects, s_txn,
                    outsideSuspects >>

\* with TimedRetryPolicy(60)(lock.acquire): the lock is taken
Acquire(r) ==
    /\ s_pc[r] = "acquire"
    /\ LockFree(s_lock, s_incident[r])
    /\ s_lock' = [s_lock EXCEPT ![s_incident[r]] = r]
    /\ s_pc' = [s_pc EXCEPT ![r] = "load"]
    /\ UNCHANGED << s_table, s_table0, s_incident, s_suspects, s_txn,
                    outsideSuspects >>

\* with TimedRetryPolicy(60)(lock.acquire): the lock stayed taken for the
\* time of the policy, the run ends with its exception
AcquireTimedOut(r) ==
    /\ s_pc[r] = "acquire"
    /\ s_lock[s_incident[r]] # None
    /\ s_pc' = [s_pc EXCEPT ![r] = "failed"]
    /\ UNCHANGED << s_table, s_table0, s_lock, s_incident, s_suspects, s_txn,
                    outsideSuspects >>

\* incident = Incident.objects.get(id=incident_id)
\* suspect_commits = get_incident_suspect_commits(incident)
Load(r, suspect_commits) ==
    /\ s_pc[r] = "load"
    /\ s_suspects' = [s_suspects EXCEPT ![r] = suspect_commits]
    /\ s_pc' = [s_pc EXCEPT ![r] = "delete"]
    /\ UNCHANGED << s_table, s_table0, s_lock, s_incident, s_txn,
                    outsideSuspects >>

\* IncidentSuspectCommit.objects.filter(incident=incident).delete(), inside
\* the transaction
Delete(r) ==
    /\ s_pc[r] = "delete"
    /\ s_txn' = [s_txn EXCEPT ![r] =
                    [deleted |-> s_table[s_incident[r]], created |-> {}]]
    /\ s_pc' = [s_pc EXCEPT ![r] = "create"]
    /\ UNCHANGED << s_table, s_table0, s_lock, s_incident, s_suspects,
                    outsideSuspects >>

\* IncidentSuspectCommit.objects.bulk_create([...]), inside the transaction
Create(r) ==
    /\ s_pc[r] = "create"
    /\ s_txn' = [s_txn EXCEPT ![r].created = SuspectRows(s_suspects[r])]
    /\ s_pc' = [s_pc EXCEPT ![r] = "commit"]
    /\ UNCHANGED << s_table, s_table0, s_lock, s_incident, s_suspects,
                    outsideSuspects >>

\* the end of `with transaction.atomic()`: the transaction commits
Commit(r) ==
    /\ s_pc[r] = "commit"
    /\ s_table' = [s_table EXCEPT ![s_incident[r]] =
                      (@ \ s_txn[r].deleted) \cup s_txn[r].created]
    /\ s_pc' = [s_pc EXCEPT ![r] = "release"]
    /\ UNCHANGED << s_table0, s_lock, s_incident, s_suspects, s_txn,
                    outsideSuspects >>

\* the end of the with block of the lock: the lock is released
Release(r) ==
    /\ s_pc[r] = "release"
    /\ s_lock' = [s_lock EXCEPT ![s_incident[r]] = IF @ = r THEN None ELSE @]
    /\ s_pc' = [s_pc EXCEPT ![r] = "done"]
    /\ UNCHANGED << s_table, s_table0, s_incident, s_suspects, s_txn,
                    outsideSuspects >>

NextS ==
    \/ \E r \in Runs, incident_id \in Incidents : StartRun(r, incident_id)
    \/ \E r \in Runs : Acquire(r)
    \/ \E r \in Runs : AcquireTimedOut(r)
    \/ \E r \in Runs, suspect_commits \in CommitLists : Load(r, suspect_commits)
    \/ \E r \in Runs : Delete(r)
    \/ \E r \in Runs : Create(r)
    \/ \E r \in Runs : Commit(r)
    \/ \E r \in Runs : Release(r)

SpecSuspects == InitS /\ [][NextS]_vars

MaxChunks == 3
\* max_retries of the task
MaxRetries == 1

\* AlertRuleStatus: the two the task names, and one of the others
PENDING_DELETION == "PENDING_DELETION"
DELETION_IN_PROGRESS == "DELETION_IN_PROGRESS"
AlertRuleStatuses == {"PENDING", PENDING_DELETION, DELETION_IN_PROGRESS}
\* AlertRule.DoesNotExist
DoesNotExist == "DoesNotExist"
\* the exceptions of a run: DeleteAborted, and any other one (of task.chunk)
DeleteAborted == "DeleteAborted"
OtherError == "Error"

\* transaction ids: None, one a caller passes, the k-th uuid4().hex
NoTxn == << "None", 0 >>
GivenTxn == << "given", 0 >>
uuid4(k) == << "uuid4", k >>

\* instance.status in (DELETION_IN_PROGRESS.value, PENDING_DELETION.value)
Deletable(status) == status \in {DELETION_IN_PROGRESS, PENDING_DELETION}

\* transaction_id=transaction_id or uuid4().hex
TaskTransactionId(transaction_id, fresh) ==
    IF transaction_id = NoTxn THEN fresh ELSE transaction_id

\* kwargs={"alert_rule_id": alert_rule_id, "transaction_id": transaction_id}
RescheduleKwargs(alert_rule_id, transaction_id) ==
    [alert_rule_id |-> alert_rule_id, transaction_id |-> transaction_id]

\* the body of delete_alert_rule on a rule of the given status with `left`
\* chunks to delete; `fresh` is what uuid4().hex gives, `fails` whether
\* task.chunk() raises
delete_alert_rule(status, left, alert_rule_id, transaction_id, fresh, fails) ==
    LET quiet == [raised |-> "no", task_txn |-> NoTxn, chunked |-> FALSE,
                  status |-> status, left |-> left, scheduled |-> {}]
    IN  IF status = DoesNotExist
        THEN quiet
        ELSE IF ~ Deletable(status)
        THEN [quiet EXCEPT !.raised = DeleteAborted]
        ELSE LET task_txn == TaskTransactionId(transaction_id, fresh)
                 has_more == left > 1
             IN  IF fails
                 THEN [quiet EXCEPT !.raised = OtherError,
                                    !.task_txn = task_txn]
                 ELSE [raised |-> "no", task_txn |-> task_txn,
                       chunked |-> TRUE,
                       status |-> IF has_more THEN status ELSE DoesNotExist,
                       left |-> IF has_more THEN left - 1 ELSE 0,
                       scheduled |->
                           IF has_more
                           THEN {RescheduleKwargs(alert_rule_id, transaction_id)}
                           ELSE {}]

\* (a retry decorator that excludes nothing)
ExcludesNothing(exception) == FALSE

\* @retry(exclude=(DeleteAborted,))
Excluded(exception) == exception = DeleteAborted

\* the decorators: a run that raised is sent again unless its exception is
\* excluded or max_retries is used up
Retried(raised, retries) ==
    raised # "no" /\ ~ Excluded(raised) /\ retries < MaxRetries

InitDelete ==
    /\ d_status \in [AlertRuleIds -> AlertRuleStatuses \cup {DoesNotExist}]
    /\ d_left \in [AlertRuleIds -> 0..MaxChunks]
    /\ \A a \in AlertRuleIds : d_left[a] = 0 <=> d_status[a] = DoesNotExist
    /\ d_queue = {}
    /\ d_uuids = 0
    /\ d_runs = << >>

InitD ==
    /\ InitCatalog /\ IdleBind /\ IdleQuery /\ IdleNotify /\ IdleSuspects
    /\ InitDelete

\* delete_alert_rule.apply_async by a caller: the first run of a chain
FirstCall(alert_rule_id, transaction_id) ==
    /\ d_queue = {} /\ d_runs = << >>
    /\ d_queue' = {[alert_rule_id |-> alert_rule_id,
                    transaction_id |-> transaction_id,
                    retries |-> 0, via |-> "caller", parent |-> 0]}
    /\ UNCHANGED << d_status, d_left, d_uuids, d_runs, outsideDelete >>

\* a worker runs one message
RunDelete(msg, fails) ==
    /\ msg \in d_queue
    /\ LET a == msg.alert_rule_id
           out == delete_alert_rule(d_status[a], d_left[a], a,
                                    msg.transaction_id, uuid4(d_uuids + 1),
                                    fails)
           retried == Retried(out.raised, msg.retries)
           me == Len(d_runs) + 1
       IN  /\ d_status' = [d_status EXCEPT ![a] = out.status]
           /\ d_left' = [d_left EXCEPT ![a] = out.left]
           /\ d_uuids' = IF out.task_txn \notin {NoTxn, msg.transaction_id}
                         THEN d_uuids + 1 ELSE d_uuids
           /\ d_queue' =
                 (d_queue \ {msg})
                 \cup { [alert_rule_id |-> k.alert_rule_id,
                         transaction_id |-> k.transaction_id,
                         retries |-> 0, via |-> "reschedule",
                         parent |-> me] : k \in out.scheduled }
                 \cup (IF retried
                       THEN {[msg EXCEPT !.retries = @ + 1, !.via = "retry",
                                         !.parent = me]}
                       ELSE {})
           /\ d_runs' = Append(d_runs,
                 [alert_rule_id |-> a, status |-> d_status[a],
                  transaction_id |-> msg.transaction_id,
                  via |-> msg.via, parent |-> msg.parent,
                  raised |-> out.raised, task_txn |-> out.task_txn,
                  chunked |-> out.chunked,
                  scheduled |-> out.scheduled # {},
                  retried |-> retried,
                  left_before |-> d_left[a], left_after |-> out.left])
    /\ UNCHANGED outsideDelete

NextD ==
    \/ \E alert_rule_id \in AlertRuleIds, transaction_id \in {NoTxn, GivenTxn} :
          FirstCall(alert_rule_id, transaction_id)
    \/ \E msg \in d_queue, fails \in BOOLEAN : RunDelete(msg, fails)

SpecDelete == InitD /\ [][NextD]_vars

\* C12: a run on an alert rule whose status is neither PENDING_DELETION nor
\* DELETION_IN_PROGRESS raises DeleteAborted, deletes no chunk, schedules
\* no run and is not retried; a run on an id without alert rule returns and
\* deletes, raises, schedules and retries nothing.
C12_AbortedOrMissing ==
    \A k \in 1..Len(d_runs) :
        LET run == d_runs[k]
            nothing == /\ ~ run.chunked
                       /\ run.left_after = run.left_before
                       /\ ~ run.scheduled
                       /\ ~ run.retried
        IN  /\ (/\ run.status # DoesNotExist
                /\ run.status \notin {PENDING_DELETION, DELETION_IN_PROGRESS})
                  => (run.raised = DeleteAborted /\ nothing)
            /\ run.status = DoesNotExist => (run.raised = "no" /\ nothing)
            /\ (k = Len(d_runs) /\ run.status \notin
                   {PENDING_DELETION, DELETION_IN_PROGRESS}) => d_queue = {}

\* a run that was aborted on a rule that is not up for deletion
C12_Witness ==
    \E k \in 1..Len(d_runs) :
        /\ d_runs[k].status = "PENDING"
        /\ d_runs[k].raised = DeleteAborted
        /\ d_queue = {}

\* C13 as stated: a run that delete_alert_rule rescheduled gives the
\* deletion task the transaction id that the run which scheduled it gave,
\* whether or not the first run was started with a transaction id.
C13_SameTransactionId ==
    \A k \in 1..Len(d_runs) :
        (d_runs[k].via = "reschedule" /\ d_runs[k].task_txn # NoTxn)
            => d_runs[k].task_txn = d_runs[d_runs[k].parent].task_txn

====
